---- MODULE Spec2Model ----
(***************************************************************************)
(* Model of the rate-limited request dispatcher (client/_throttle.py), of   *)
(* the process-wide session singleton and its response classification      *)
(* and URL resolution (client/_client.py), of the lazily loaded work and   *)
(* its metadata record (services/archiveWorks.py) and of the user entity   *)
(* (services/archiveUser.py) of AO3.py.                                    *)
(*                                                                         *)
(* Threads.  Caller c is a thread that makes one call of a wrapped         *)
(* operation (wrapper).  The worker thread that caller c may spawn at      *)
(* line 67 is worker c: a call spawns at most one thread, so indexing the  *)
(* workers by the spawning call loses no behaviour.  A thread that calls   *)
(* again after its call returned is a further caller that starts late.     *)
(*                                                                         *)
(* Time.  now is the value time.time() returns, in ticks.  It advances by  *)
(* Tick at any moment and when a sleeping thread wakes up (time.sleep      *)
(* returns no earlier than asked).                                         *)
(***************************************************************************)
EXTENDS Integers, Sequences, FiniteSets, TLC

VARIABLES
    \* ---- dispatcher state, one per wrapped operation (decorator closure)
    call_queue,        \* [Ops -> Seq(Callers)]  pending requests, by request id
    lock,              \* [Ops -> thread id or NoThread]  holder of threading.Lock
    last_called,       \* [Ops -> Nat]
    processing,        \* [Ops -> BOOLEAN]
    \* ---- one call of wrapper, per caller
    pc,                \* [Callers -> position in wrapper]
    op,                \* [Callers -> Ops]  the wrapped operation called
    args,              \* [Callers -> Args] the arguments of the call
    result_event,      \* [Callers -> BOOLEAN]  threading.Event of the request
    result_container,  \* [Callers -> outcome or None]  result slot of the request
    returned,          \* [Callers -> outcome or None]  what wrapper returned/raised
    \* ---- one process_queue thread, per spawning caller
    wpc,               \* [Callers -> position in process_queue]
    item,              \* [Callers -> request id dequeued, 0 if none]
    elapsed,           \* [Callers -> Int]  local variable elapsed
    wake,              \* [Callers -> Nat]  end of the current time.sleep
    \* ---- clock and observation
    now,               \* time.time()
    invoked,           \* Seq of [req, op, at]: the invocations of func, in order
    putOrder,          \* [Ops -> Seq(Callers)]: requests in call_queue.put order
    \* ---- ClientSession singleton
    INSTANCE_,         \* ClientSession._INSTANCE: object id, 0 for None
    objects,           \* [object id -> [has_session, _session, _is_authenticated]]
    spc,               \* [Users -> position in ClientSession()]
    scrapers,          \* number of CloudScraper() transports constructed
    seenNone,          \* [Users -> BOOLEAN]   outcome of the test at line 71
    self_,             \* [Users -> object id] the object __new__ returned
    refs,              \* [Users -> Seq(object id)] references returned so far
    \* ---- one ArchiveWork, used by the reader threads
    built,             \* how far ArchiveWork(work_id, load) has come
    id_,               \* ArchiveWork._id
    url,               \* the link passed to session.fetch last, 0 if none
    result,            \* [Readers -> what the last operation returned/raised]
    loaded_,           \* ArchiveWork._loaded
    data_,             \* ArchiveWork._data: [attribute name -> value]
    rpc,               \* [Readers -> position in the accessor or in reload]
    rop,               \* [Readers -> the operation in progress]
    pending,           \* [Readers -> items of parser.parse() still to be set]
    response,          \* [Readers -> the response fetch has received]
    entry,             \* [Readers -> what the operation found and did so far]
    nops,              \* [Readers -> number of operations completed]
    fetches,           \* number of calls of session.fetch by this work
    reloads,           \* TRUE once reload() has been called explicitly
    merged,            \* TRUE once a reload has merged its whole mapping
    \* ---- one metadata record handed to update(data)
    rec,               \* [attribute name -> value]
    given,             \* the data passed to update, as a sequence of items
    items,             \* the items the loop has still to visit
    ustate,            \* position in update: "idle", "loop", "returned", "raised"
    \* ---- calls of ClientSession._resolve_url, each on the result of the last
    rurl,              \* the URL given to the first call
    rout,              \* the URL returned by the last call
    rprev,             \* the URL returned by the call before it
    rstate,            \* "idle", "returned" or "raised"
    rcount,            \* number of calls made
    \* ---- one ArchiveUser
    ubuilt,            \* how far ArchiveUser(name, parent, load) has come
    is_loaded_,        \* ArchiveUser._is_loaded
    udata_,            \* ArchiveUser._data: [attribute name -> value]
    apc,               \* position in the accessor or in reload
    acc,               \* the accessor being read, or "reload"
    aout,              \* what the last operation returned or raised
    areads,            \* number of operations completed
    ufetches           \* number of calls of session.fetch by this user

dvars == <<call_queue, lock, last_called, processing>>
cvars == <<pc, op, args, result_event, result_container, returned>>
wvars == <<wpc, item, elapsed, wake>>
hvars == <<now, invoked, putOrder>>
svars == <<INSTANCE_, objects, scrapers, spc, seenNone, self_, refs>>
mvars == <<built, id_, url, result, loaded_, data_, rpc, rop, pending, response,
           entry, nops, fetches, reloads, merged>>
uvars == <<rec, given, items, ustate>>
rvars == <<rurl, rout, rprev, rstate, rcount>>
avars == <<ubuilt, is_loaded_, udata_, apc, acc, aout, areads, ufetches>>
xvars == <<mvars, uvars, rvars, avars>>
vars == <<dvars, cvars, wvars, hvars, svars, xvars>>

----------------------------------------------------------------------------
\* Bounds of the model
NumCallers == 2
MaxTime == 3
NumUsers == 2
MaxCalls == 2
NumReaders == 2
MaxOps == 2
NumPages == 2
MaxItems == 2
MaxResolve == 2
MaxReads == 2
NumNames == 2

\* throttle_dispatch(1.0) on fetch and on post; one second is Interval ticks
Interval == 2

Callers == 1..NumCallers
Users == 1..NumUsers
Readers == 1..NumReaders
Pages == 1..NumPages
Ops == {"fetch", "post"}
Args == {"a", "bad"}

NoThread == 0
CallerId(c) == c
WorkerId(w) == NumCallers + w

None == [kind |-> "none", val |-> "none"]

\* func(*args, **kwargs): the underlying operation returns a value that
\* depends on its arguments, or raises an Exception.
Func(d, a) ==
    IF a = "bad" THEN [kind |-> "error", val |-> "E"]
    ELSE [kind |-> "value", val |-> a]

\* Variant: the dispatcher state is created once and shared by every wrapped
\* operation, instead of once per decorated function.
decorator_shared(func) == "fetch"

\* decorator(func): the closure holding call_queue, lock, last_called and
\* processing of the wrapped operation func; one closure per decorated function
decorator(func) == func

Max(x, y) == IF x >= y THEN x ELSE y

----------------------------------------------------------------------------
\* Dispatcher

DispatcherInit ==
    /\ call_queue = [d \in Ops |-> <<>>]
    /\ lock = [d \in Ops |-> NoThread]
    /\ last_called = [d \in Ops |-> 0]
    /\ processing = [d \in Ops |-> FALSE]
    /\ pc = [c \in Callers |-> "idle"]
    /\ op = [c \in Callers |-> "fetch"]
    /\ args = [c \in Callers |-> "a"]
    /\ result_event = [c \in Callers |-> FALSE]
    /\ result_container = [c \in Callers |-> None]
    /\ returned = [c \in Callers |-> None]
    /\ wpc = [c \in Callers |-> "unborn"]
    /\ item = [c \in Callers |-> 0]
    /\ elapsed = [c \in Callers |-> 0]
    /\ wake = [c \in Callers |-> 0]
    /\ now = Interval
    /\ invoked = <<>>
    /\ putOrder = [d \in Ops |-> <<>>]

\* wrapper, lines 60-63: new event and result slot, call_queue.put.
\* Callers are interchangeable: they are numbered in the order of their puts.
Put(c, d, a) ==
    /\ pc[c] = "idle"
    /\ \A b \in Callers : b < c => pc[b] # "idle"
    /\ op' = [op EXCEPT ![c] = d]
    /\ args' = [args EXCEPT ![c] = a]
    /\ call_queue' = [call_queue EXCEPT ![decorator(d)] = Append(@, c)]
    /\ putOrder' = [putOrder EXCEPT ![d] = Append(@, c)]
    /\ pc' = [pc EXCEPT ![c] = "lock"]
    /\ UNCHANGED <<lock, last_called, processing, result_event, result_container,
                   returned, wvars, now, invoked, svars, xvars>>

\* wrapper, line 65: with lock
WrapperAcquire(c) ==
    /\ pc[c] = "lock"
    /\ lock[decorator(op[c])] = NoThread
    /\ lock' = [lock EXCEPT ![decorator(op[c])] = CallerId(c)]
    /\ pc' = [pc EXCEPT ![c] = "check"]
    /\ UNCHANGED <<call_queue, last_called, processing, op, args, result_event,
                   result_container, returned, wvars, hvars, svars, xvars>>

\* wrapper, lines 66-68: start a worker thread unless one is flagged active,
\* then leave the with block
SpawnIfIdle(c) ==
    /\ pc[c] = "check"
    /\ lock[decorator(op[c])] = CallerId(c)
    /\ wpc' = IF ~processing[decorator(op[c])]
              THEN [wpc EXCEPT ![c] = "start"]
              ELSE wpc
    /\ lock' = [lock EXCEPT ![decorator(op[c])] = NoThread]
    /\ pc' = [pc EXCEPT ![c] = "wait"]
    /\ UNCHANGED <<call_queue, last_called, processing, op, args, result_event,
                   result_container, returned, item, elapsed, wake, hvars,
                   svars, xvars>>

\* Variant: the caller reads its result slot without waiting for the event.
WaitReturn_nowait(c) ==
    /\ pc[c] = "wait"
    /\ returned' = [returned EXCEPT ![c] = result_container[c]]
    /\ pc' = [pc EXCEPT ![c] = "done"]
    /\ UNCHANGED <<dvars, op, args, result_event, result_container, wvars, hvars,
                   svars, xvars>>

\* wrapper, lines 70-74: result_event.wait(), then return the result or raise
\* the exception of the request's own slot
WaitReturn(c) ==
    /\ pc[c] = "wait"
    /\ result_event[c]
    /\ returned' = [returned EXCEPT ![c] = result_container[c]]
    /\ pc' = [pc EXCEPT ![c] = "done"]
    /\ UNCHANGED <<dvars, op, args, result_event, result_container, wvars, hvars,
                   svars, xvars>>

\* process_queue, line 29: with lock
WorkerAcquire(w) ==
    /\ wpc[w] = "start"
    /\ lock[decorator(op[w])] = NoThread
    /\ lock' = [lock EXCEPT ![decorator(op[w])] = WorkerId(w)]
    /\ wpc' = [wpc EXCEPT ![w] = "setflag"]
    /\ UNCHANGED <<call_queue, last_called, processing, cvars, item, elapsed, wake,
                   hvars, svars, xvars>>

\* process_queue, line 30: processing = True, and the end of the with block
SetProcessing(w) ==
    /\ wpc[w] = "setflag"
    /\ processing' = [processing EXCEPT ![decorator(op[w])] = TRUE]
    /\ lock' = [lock EXCEPT ![decorator(op[w])] = NoThread]
    /\ wpc' = [wpc EXCEPT ![w] = "get"]
    /\ UNCHANGED <<call_queue, last_called, cvars, item, elapsed, wake, hvars,
                   svars, xvars>>

\* Variant: the worker reads the head of the queue without removing it.
Get_peek(w) ==
    /\ wpc[w] = "get"
    /\ IF call_queue[decorator(op[w])] # <<>>
       THEN /\ item' = [item EXCEPT ![w] = Head(call_queue[decorator(op[w])])]
            /\ wpc' = [wpc EXCEPT ![w] = "throttle"]
       ELSE /\ wpc' = [wpc EXCEPT ![w] = "exitlock"]
            /\ UNCHANGED item
    /\ UNCHANGED <<dvars, cvars, elapsed, wake, hvars,
                   svars, xvars>>

\* process_queue, lines 34-36 and 52: call_queue.get(block=False)
Get(w) ==
    /\ wpc[w] = "get"
    /\ IF call_queue[decorator(op[w])] # <<>>
       THEN /\ item' = [item EXCEPT ![w] = Head(call_queue[decorator(op[w])])]
            /\ call_queue' = [call_queue EXCEPT ![decorator(op[w])] = Tail(@)]
            /\ wpc' = [wpc EXCEPT ![w] = "throttle"]
       ELSE /\ wpc' = [wpc EXCEPT ![w] = "exitlock"]
            /\ UNCHANGED <<item, call_queue>>
    /\ UNCHANGED <<lock, last_called, processing, cvars, elapsed, wake, hvars,
                   svars, xvars>>

\* Variant: the worker sleeps a whole interval before every invocation.
Throttle_fixed(w) ==
    /\ wpc[w] = "throttle"
    /\ elapsed' = [elapsed EXCEPT ![w] = now - last_called[decorator(op[w])]]
    /\ wake' = [wake EXCEPT ![w] = now + Interval]
    /\ wpc' = [wpc EXCEPT ![w] = "sleeping"]
    /\ UNCHANGED <<dvars, cvars, item, hvars, svars, xvars>>

\* process_queue, lines 38-40: elapsed = time.time() - last_called;
\* if elapsed < interval: time.sleep(interval - elapsed)
Throttle(w) ==
    /\ wpc[w] = "throttle"
    /\ LET e == now - last_called[decorator(op[w])] IN
       /\ elapsed' = [elapsed EXCEPT ![w] = e]
       /\ IF e < Interval
          THEN /\ wake' = [wake EXCEPT ![w] = now + (Interval - e)]
               /\ wpc' = [wpc EXCEPT ![w] = "sleeping"]
          ELSE /\ wpc' = [wpc EXCEPT ![w] = "invoke"]
               /\ UNCHANGED wake
    /\ UNCHANGED <<dvars, cvars, item, hvars, svars, xvars>>

\* time.sleep returns: no earlier than the time asked for
WakeUp(w) ==
    /\ wpc[w] = "sleeping"
    /\ now' = Max(now, wake[w])
    /\ wpc' = [wpc EXCEPT ![w] = "invoke"]
    /\ UNCHANGED <<dvars, cvars, item, elapsed, wake, invoked, putOrder, svars, xvars>>

\* process_queue, lines 43-44: last_called = time.time(), func is entered
Invoke(w) ==
    /\ wpc[w] = "invoke"
    /\ last_called' = [last_called EXCEPT ![decorator(op[w])] = now]
    /\ invoked' = Append(invoked, [req |-> item[w], op |-> op[w], at |-> now])
    /\ elapsed' = [elapsed EXCEPT ![w] = 0]
    /\ wake' = [wake EXCEPT ![w] = 0]
    /\ wpc' = [wpc EXCEPT ![w] = "infunc"]
    /\ UNCHANGED <<call_queue, lock, processing, cvars, item, now, putOrder, svars, xvars>>

\* Variant: an exception of func is not caught; the worker thread dies on it.
Complete_uncaught(w) ==
    /\ wpc[w] = "infunc"
    /\ IF Func(op[w], args[item[w]]).kind = "error"
       THEN /\ wpc' = [wpc EXCEPT ![w] = "exited"]
            /\ UNCHANGED <<result_container, result_event, item>>
       ELSE /\ result_container' =
                  [result_container EXCEPT ![item[w]] = Func(op[w], args[item[w]])]
            /\ result_event' = [result_event EXCEPT ![item[w]] = TRUE]
            /\ item' = [item EXCEPT ![w] = 0]
            /\ wpc' = [wpc EXCEPT ![w] = "get"]
    /\ UNCHANGED <<dvars, pc, op, args, returned, elapsed, wake, hvars,
                   svars, xvars>>

\* process_queue, lines 44-50: func returns or raises; the outcome is stored
\* in the slot of the dequeued request as (result, None) or (None, e); then
\* result_event.set() and call_queue.task_done().  The slot is read by the
\* caller only after the event is set, so the three lines are one step.
Complete(w) ==
    /\ wpc[w] = "infunc"
    /\ result_container' =
          [result_container EXCEPT ![item[w]] = Func(op[w], args[item[w]])]
    /\ result_event' = [result_event EXCEPT ![item[w]] = TRUE]
    /\ item' = [item EXCEPT ![w] = 0]
    /\ wpc' = [wpc EXCEPT ![w] = "get"]
    /\ UNCHANGED <<dvars, pc, op, args, returned, elapsed, wake, hvars,
                   svars, xvars>>

\* process_queue, line 53: with lock
ExitAcquire(w) ==
    /\ wpc[w] = "exitlock"
    /\ lock[decorator(op[w])] = NoThread
    /\ lock' = [lock EXCEPT ![decorator(op[w])] = WorkerId(w)]
    /\ wpc' = [wpc EXCEPT ![w] = "exitcheck"]
    /\ UNCHANGED <<call_queue, last_called, processing, cvars, item, elapsed, wake,
                   hvars, svars, xvars>>

\* Variant: the worker leaves without looking at the queue again.
ExitCheck_norecheck(w) ==
    /\ wpc[w] = "exitcheck"
    /\ processing' = [processing EXCEPT ![decorator(op[w])] = FALSE]
    /\ wpc' = [wpc EXCEPT ![w] = "exited"]
    /\ lock' = [lock EXCEPT ![decorator(op[w])] = NoThread]
    /\ UNCHANGED <<call_queue, last_called, cvars, item, elapsed, wake, hvars,
                   svars, xvars>>

\* Variant: the worker leaves on an empty queue without clearing the flag.
ExitCheck_keepflag(w) ==
    /\ wpc[w] = "exitcheck"
    /\ wpc' = [wpc EXCEPT ![w] =
                 IF call_queue[decorator(op[w])] = <<>> THEN "exited" ELSE "get"]
    /\ lock' = [lock EXCEPT ![decorator(op[w])] = NoThread]
    /\ UNCHANGED <<call_queue, last_called, processing, cvars, item, elapsed, wake,
                   hvars, svars, xvars>>

\* process_queue, lines 54-56: if call_queue.empty(): processing = False; break
ExitCheck(w) ==
    /\ wpc[w] = "exitcheck"
    /\ IF call_queue[decorator(op[w])] = <<>>
       THEN /\ processing' = [processing EXCEPT ![decorator(op[w])] = FALSE]
            /\ wpc' = [wpc EXCEPT ![w] = "exited"]
       ELSE /\ wpc' = [wpc EXCEPT ![w] = "get"]
            /\ UNCHANGED processing
    /\ lock' = [lock EXCEPT ![decorator(op[w])] = NoThread]
    /\ UNCHANGED <<call_queue, last_called, cvars, item, elapsed, wake, hvars,
                   svars, xvars>>

\* The clock advances.  Only lines 38 and 43 read it, so that a tick matters
\* only when a worker is about to execute one of them.
ClockIsRead == \E w \in Callers : wpc[w] \in {"throttle", "invoke"}

Tick ==
    /\ now < MaxTime
    /\ ClockIsRead
    /\ now' = now + 1
    /\ UNCHANGED <<dvars, cvars, wvars, invoked, putOrder, svars, xvars>>

\* A call of one of the wrapped operations D with arguments among A
wrapper(c, D, A) ==
    \/ \E d \in D, a \in A : Put(c, d, a)
    \/ WrapperAcquire(c)
    \/ SpawnIfIdle(c)
    \/ WaitReturn(c)

process_queue(w) ==
    \/ WorkerAcquire(w)
    \/ SetProcessing(w)
    \/ Get(w)
    \/ Throttle(w)
    \/ WakeUp(w)
    \/ Invoke(w)
    \/ Complete(w)
    \/ ExitAcquire(w)
    \/ ExitCheck(w)

----------------------------------------------------------------------------
\* ClientSession singleton: user thread u evaluates ClientSession() (which
\* is also all that ClientSession.instance() does), MaxCalls times at most.

NoObject == 0

SessionInit ==
    /\ INSTANCE_ = NoObject
    /\ objects = <<>>
    /\ scrapers = 0
    /\ spc = [u \in Users |-> "idle"]
    /\ seenNone = [u \in Users |-> FALSE]
    /\ self_ = [u \in Users |-> NoObject]
    /\ refs = [u \in Users |-> <<>>]

\* a fresh object: no attribute set yet
NewObject == [has_session |-> FALSE, _session |-> 0, _is_authenticated |-> FALSE]

\* instance(), line 184, or a direct ClientSession(): enter __new__
Construct(u) ==
    /\ spc[u] = "idle"
    /\ Len(refs[u]) < MaxCalls
    /\ spc' = [spc EXCEPT ![u] = "test"]
    /\ UNCHANGED <<dvars, cvars, wvars, hvars, xvars, INSTANCE_, objects, scrapers,
                   seenNone, self_, refs>>

\* __new__, line 71: if cls._INSTANCE is None or not isinstance(cls._INSTANCE, cls)
NewTest(u) ==
    /\ spc[u] = "test"
    /\ spc' = [spc EXCEPT ![u] = IF INSTANCE_ = NoObject THEN "create" ELSE "ret"]
    /\ seenNone' = [seenNone EXCEPT ![u] = (INSTANCE_ = NoObject)]
    /\ UNCHANGED <<dvars, cvars, wvars, hvars, xvars, INSTANCE_, objects, scrapers, self_,
                   refs>>

\* __new__, line 72: cls._INSTANCE = super().__new__(cls)
NewCreate(u) ==
    /\ spc[u] = "create"
    /\ objects' = Append(objects, NewObject)
    /\ INSTANCE_' = Len(objects) + 1
    /\ spc' = [spc EXCEPT ![u] = "ret"]
    /\ UNCHANGED <<dvars, cvars, wvars, hvars, xvars, scrapers, seenNone, self_, refs>>

\* __new__, line 74: return cls._INSTANCE; __init__ is then called on it
NewReturn(u) ==
    /\ spc[u] = "ret"
    /\ self_' = [self_ EXCEPT ![u] = INSTANCE_]
    /\ spc' = [spc EXCEPT ![u] = "init"]
    /\ UNCHANGED <<dvars, cvars, wvars, hvars, xvars, INSTANCE_, objects, scrapers,
                   seenNone,
                   refs>>

\* __init__, lines 81-82: if hasattr(self, "_session"): return
InitTest(u) ==
    /\ spc[u] = "init"
    /\ spc' = [spc EXCEPT ![u] =
                 IF objects[self_[u]].has_session THEN "out" ELSE "session"]
    /\ UNCHANGED <<dvars, cvars, wvars, hvars, xvars, INSTANCE_, objects, scrapers,
                   seenNone,
                   self_, refs>>

\* __init__, line 84: self._session = CloudScraper()
SetSession(u) ==
    /\ spc[u] = "session"
    /\ scrapers' = scrapers + 1
    /\ objects' = [objects EXCEPT ![self_[u]].has_session = TRUE,
                                  ![self_[u]]._session = scrapers + 1]
    /\ spc' = [spc EXCEPT ![u] = "auth"]
    /\ UNCHANGED <<dvars, cvars, wvars, hvars, xvars, INSTANCE_, seenNone, self_, refs>>

\* __init__, line 86: self._is_authenticated = False
SetAuthenticated(u) ==
    /\ spc[u] = "auth"
    /\ objects' = [objects EXCEPT ![self_[u]]._is_authenticated = FALSE]
    /\ spc' = [spc EXCEPT ![u] = "out"]
    /\ UNCHANGED <<dvars, cvars, wvars, hvars, xvars, INSTANCE_, scrapers, seenNone, self_,
                   refs>>

\* the constructor expression yields the object
Yield(u) ==
    /\ spc[u] = "out"
    /\ refs' = [refs EXCEPT ![u] = Append(@, self_[u])]
    /\ spc' = [spc EXCEPT ![u] = "idle"]
    /\ UNCHANGED <<dvars, cvars, wvars, hvars, xvars, INSTANCE_, objects, scrapers,
                   seenNone,
                   self_>>

ClientSession(u) ==
    \/ Construct(u)
    \/ NewTest(u)
    \/ NewCreate(u)
    \/ NewReturn(u)
    \/ InitTest(u)
    \/ SetSession(u)
    \/ SetAuthenticated(u)
    \/ Yield(u)

----------------------------------------------------------------------------
\* Response documents and their classification (ClientSession.fetch)

\* What the server may answer: with or without the sign-in block
\* div#signin, with no h2.heading element, with the heading "Error 404" or
\* with the heading of a work page; page is the content shown.
Headings == {"absent", "Error 404", "work"}
Docs == [signin : BOOLEAN, heading : Headings, page : Pages]
NoDoc == [signin |-> FALSE, heading |-> "absent", page |-> 0]

\* _assert_response_success, lines 105-112: the exception raised, or "ok".
\* response.find("h2", ...) is None without such an element, and None.text
\* raises AttributeError.
assert_response_success(doc) ==
    IF doc.signin THEN "ClientNotAuthorizedError"
    ELSE IF doc.heading = "absent" THEN "AttributeError"
    ELSE IF doc.heading = "Error 404" THEN "ArchivePageNotFoundError"
    ELSE "ok"

\* fetch, lines 148-151, with soup=True: the response is classified, then the
\* parsed document is returned.  The wrapper hands the caller this outcome.
fetch(doc) ==
    IF assert_response_success(doc) = "ok"
    THEN [kind |-> "value", val |-> doc.page]
    ELSE [kind |-> "error", val |-> assert_response_success(doc)]

----------------------------------------------------------------------------
\* Metadata record (WorkMetadata)

WorkId == 12345
Default == 0
Method == 0 - 1
Class == 0 - 2

\* WorkMetadata(ID=work_id, link=...): the declared fields with their
\* defaults (two of the parsed fields stand for all), and two of the further
\* attributes every instance has: the method update and __class__
DeclaredFields == {"ID", "link", "title", "author"}
WorkMetadata ==
    [a \in DeclaredFields \cup {"update", "__class__"} |->
        IF a \in {"ID", "link"} THEN WorkId
        ELSE IF a = "update" THEN Method
        ELSE IF a = "__class__" THEN Class
        ELSE Default]

hasattr(r, k) == k \in DOMAIN r
setattr(r, k, v) == [a \in DOMAIN r \cup {k} |-> IF a = k THEN v ELSE r[a]]

\* setattr raises TypeError when __class__ is given a value that is no class
\* (no value of a mapping here is one); any other attribute takes any value
Assignable(k, v) == k # "__class__"

\* Variant: the item is set without asking hasattr.
UpdateItem_always(r, it) == setattr(r, it[1], it[2])

\* update, lines 97-99, for one item (k, v) of data that setattr accepts
UpdateItem(r, it) == IF hasattr(r, it[1]) THEN setattr(r, it[1], it[2]) ELSE r

\* update, lines 98-101: the item makes setattr raise, and update ValueError
UpdateRaises(r, it) == hasattr(r, it[1]) /\ ~Assignable(it[1], it[2])

\* Variant: the parser's mapping also carries a link extracted from the page.
WorkParser_parse_link(page) ==
    <<<<"title", page>>, <<"author", page>>, <<"link", page>>>>

\* WorkParser.parse, lines 12-38: the mapping extracted from a page, as the
\* sequence of its items in dict order; neither ID nor link is among them
WorkParser_parse(page) == <<<<"title", page>>, <<"author", page>>>>

----------------------------------------------------------------------------
\* ArchiveWork: thread 1 constructs the work, with or without load; then
\* reader thread r reads an accessor or calls reload(), MaxOps operations at
\* most.  session.fetch is one blocking call: the dispatcher invokes the
\* underlying fetch once for it and hands back its outcome.

Fields == {"title", "author"}
NoOp == [kind |-> "none", field |-> "none"]
NoEntry == [loaded |-> FALSE, loads |-> FALSE, fetched |-> 0, saw |-> "none"]

\* ArchiveWork.__init__, lines 123-128: the state before line 130
WorkInit ==
    /\ built = "new"
    /\ id_ = WorkId
    /\ url = 0
    /\ result = [r \in Readers |-> None]
    /\ loaded_ = FALSE
    /\ data_ = WorkMetadata
    /\ rpc = [r \in Readers |-> "idle"]
    /\ rop = [r \in Readers |-> NoOp]
    /\ pending = [r \in Readers |-> <<>>]
    /\ response = [r \in Readers |-> NoDoc]
    /\ entry = [r \in Readers |-> NoEntry]
    /\ nops = [r \in Readers |-> 0]
    /\ fetches = 0
    /\ reloads = FALSE
    /\ merged = FALSE

\* the entity as the operation finds it
Entry == [loaded |-> loaded_, loads |-> merged, fetched |-> 0, saw |-> "none"]

\* Variant: the constructor ignores load and never calls reload.
ArchiveWork_init_lazy(r, load) ==
    /\ built = "new"
    /\ r = 1
    /\ built' = IF load THEN "loaded" ELSE "plain"
    /\ UNCHANGED <<id_, url, result, loaded_, data_, rpc, rop, pending, response,
                   entry, nops, fetches, reloads, merged,
                   dvars, cvars, wvars, hvars, svars, uvars, rvars, avars>>

\* ArchiveWork.__init__, lines 130-131: if load: self.reload().  Without
\* load the constructor returns; with it the constructing thread enters
\* reload, and no other thread has the object before the constructor returns.
ArchiveWork_init(r, load) ==
    /\ built = "new"
    /\ r = 1
    /\ rpc[r] = "idle"
    /\ IF load
       THEN /\ rop' = [rop EXCEPT ![r] = [kind |-> "init", field |-> "none"]]
            /\ entry' = [entry EXCEPT ![r] = Entry]
            /\ rpc' = [rpc EXCEPT ![r] = "reload"]
            /\ UNCHANGED built
       ELSE /\ built' = "plain"
            /\ UNCHANGED <<rop, entry, rpc>>
    /\ UNCHANGED <<id_, url, result, loaded_, data_, pending, response, nops,
                   fetches, reloads, merged,
                   dvars, cvars, wvars, hvars, svars, uvars, rvars, avars>>

\* the operation of r ends: it returns a value or raises, which also ends
\* the constructor when it is the reload of line 131
Finish(r, outcome) ==
    /\ result' = [result EXCEPT ![r] = outcome]
    /\ IF rop[r].kind = "init"
       THEN /\ built' = IF outcome.kind = "error" THEN "failed" ELSE "loaded"
            /\ UNCHANGED nops
       ELSE /\ nops' = [nops EXCEPT ![r] = @ + 1]
            /\ UNCHANGED built
    /\ rpc' = [rpc EXCEPT ![r] = "idle"]
    /\ rop' = [rop EXCEPT ![r] = NoOp]
    /\ entry' = [entry EXCEPT ![r] = NoEntry]

\* the reader threads are alike: they are numbered in the order in which
\* they begin their first operation
Started(r) == \A q \in Readers : q < r => (nops[q] > 0 \/ rpc[q] # "idle")

\* a property such as title, line 147, is read: _ensure_loaded is entered
BeginRead(r, f) ==
    /\ built \in {"plain", "loaded"}
    /\ rpc[r] = "idle"
    /\ nops[r] < MaxOps
    /\ Started(r)
    /\ rop' = [rop EXCEPT ![r] = [kind |-> "read", field |-> f]]
    /\ entry' = [entry EXCEPT ![r] = Entry]
    /\ result' = [result EXCEPT ![r] = None]
    /\ rpc' = [rpc EXCEPT ![r] = "ensure"]
    /\ UNCHANGED <<built, id_, url, loaded_, data_, pending, response, nops,
                   fetches, reloads, merged,
                   dvars, cvars, wvars, hvars, svars, uvars, rvars, avars>>

\* reload() is called explicitly
BeginReload(r) ==
    /\ built \in {"plain", "loaded"}
    /\ rpc[r] = "idle"
    /\ nops[r] < MaxOps
    /\ Started(r)
    /\ rop' = [rop EXCEPT ![r] = [kind |-> "reload", field |-> "none"]]
    /\ entry' = [entry EXCEPT ![r] = Entry]
    /\ result' = [result EXCEPT ![r] = None]
    /\ reloads' = TRUE
    /\ rpc' = [rpc EXCEPT ![r] = "reload"]
    /\ UNCHANGED <<built, id_, url, loaded_, data_, pending, response, nops,
                   fetches, merged,
                   dvars, cvars, wvars, hvars, svars, uvars, rvars, avars>>

\* Variant: _ensure_loaded reloads whatever the flag says.
EnsureLoaded_always(r) ==
    /\ rpc[r] = "ensure"
    /\ entry' = [entry EXCEPT ![r].saw = IF loaded_ THEN "loaded" ELSE "unloaded"]
    /\ rpc' = [rpc EXCEPT ![r] = "reload"]
    /\ UNCHANGED <<built, id_, url, result, loaded_, data_, rop, pending, response,
                   nops, fetches, reloads, merged,
                   dvars, cvars, wvars, hvars, svars, uvars, rvars, avars>>

\* _ensure_loaded, lines 141-142: if not self._loaded: self.reload()
EnsureLoaded(r) ==
    /\ rpc[r] = "ensure"
    /\ entry' = [entry EXCEPT ![r].saw = IF loaded_ THEN "loaded" ELSE "unloaded"]
    /\ rpc' = [rpc EXCEPT ![r] = IF loaded_ THEN "get" ELSE "reload"]
    /\ UNCHANGED <<built, id_, url, result, loaded_, data_, rop, pending, response,
                   nops, fetches, reloads, merged,
                   dvars, cvars, wvars, hvars, svars, uvars, rvars, avars>>

\* reload, lines 135-136: self._loaded = True, then session.fetch is called
\* with self._data.link
ReloadFetch(r) ==
    /\ rpc[r] = "reload"
    /\ loaded_' = TRUE
    /\ url' = data_["link"]
    /\ fetches' = fetches + 1
    /\ entry' = [entry EXCEPT ![r].fetched = @ + 1]
    /\ rpc' = [rpc EXCEPT ![r] = "fetching"]
    /\ UNCHANGED <<built, id_, result, data_, rop, pending, response, nops,
                   reloads, merged,
                   dvars, cvars, wvars, hvars, svars, uvars, rvars, avars>>

\* Variant: the response is handed to the caller without being classified.
Receive_unchecked(r, doc) ==
    /\ rpc[r] = "fetching"
    /\ pending' = [pending EXCEPT ![r] = WorkParser_parse(doc.page)]
    /\ rpc' = [rpc EXCEPT ![r] = "update"]
    /\ UNCHANGED <<built, id_, url, result, loaded_, data_, rop, response, entry,
                   nops, fetches, reloads, merged,
                   dvars, cvars, wvars, hvars, svars, uvars, rvars, avars>>

\* fetch, line 149: response = self._session.get(url, params=params)
Receive(r, doc) ==
    /\ rpc[r] = "fetching"
    /\ response' = [response EXCEPT ![r] = doc]
    /\ rpc' = [rpc EXCEPT ![r] = "classify"]
    /\ UNCHANGED <<built, id_, url, result, loaded_, data_, rop, pending, entry,
                   nops, fetches, reloads, merged,
                   dvars, cvars, wvars, hvars, svars, uvars, rvars, avars>>

\* Variant: a load that fails is tried again instead of raising.
Classify_retry(r) ==
    /\ rpc[r] = "classify"
    /\ response' = [response EXCEPT ![r] = NoDoc]
    /\ IF fetch(response[r]).kind = "value"
       THEN /\ pending' = [pending EXCEPT ![r] =
                             WorkParser_parse(fetch(response[r]).val)]
            /\ rpc' = [rpc EXCEPT ![r] = "update"]
       ELSE /\ rpc' = [rpc EXCEPT ![r] = "reload"]
            /\ UNCHANGED pending
    /\ UNCHANGED <<built, id_, url, result, loaded_, data_, rop, entry, nops,
                   fetches, reloads, merged,
                   dvars, cvars, wvars, hvars, svars, uvars, rvars, avars>>

\* fetch, lines 150-151, and reload, lines 136-138: the response is
\* classified; fetch raises, and so do reload and the accessor, none of which
\* catches anything, or the document is returned and parsed into the mapping
\* handed to update
Classify(r) ==
    /\ rpc[r] = "classify"
    /\ response' = [response EXCEPT ![r] = NoDoc]
    /\ IF fetch(response[r]).kind = "value"
       THEN /\ pending' = [pending EXCEPT ![r] =
                             WorkParser_parse(fetch(response[r]).val)]
            /\ rpc' = [rpc EXCEPT ![r] = "update"]
            /\ UNCHANGED <<built, result, rop, entry, nops>>
       ELSE /\ Finish(r, fetch(response[r]))
            /\ UNCHANGED pending
    /\ UNCHANGED <<id_, url, loaded_, data_, fetches, reloads, merged,
                   dvars, cvars, wvars, hvars, svars, uvars, rvars, avars>>

\* update, lines 96-99: the next item of data is set (no key of the parser's
\* mapping makes setattr raise); after the last one update and reload return
UpdateStep(r) ==
    /\ rpc[r] = "update"
    /\ pending[r] # <<>>
    /\ data_' = UpdateItem(data_, Head(pending[r]))
    /\ pending' = [pending EXCEPT ![r] = Tail(@)]
    /\ IF Tail(pending[r]) # <<>>
       THEN UNCHANGED <<built, result, rpc, rop, entry, nops, merged>>
       ELSE /\ merged' = TRUE
            /\ IF rop[r].kind \in {"reload", "init"}
               THEN Finish(r, [kind |-> "value", val |-> 0])
               ELSE /\ rpc' = [rpc EXCEPT ![r] = "get"]
                    /\ UNCHANGED <<built, result, rop, entry, nops>>
    /\ UNCHANGED <<id_, url, loaded_, response, fetches, reloads,
                   dvars, cvars, wvars, hvars, svars, uvars, rvars, avars>>

\* the property, line 148: return self._data.title
ReadField(r) ==
    /\ rpc[r] = "get"
    /\ Finish(r, [kind |-> "value", val |-> data_[rop[r].field]])
    /\ UNCHANGED <<id_, url, loaded_, data_, pending, response, fetches, reloads,
                   merged, dvars, cvars, wvars, hvars, svars, uvars, rvars, avars>>

ArchiveWork(r) ==
    \/ \E load \in BOOLEAN : ArchiveWork_init(r, load)
    \/ \E f \in Fields : BeginRead(r, f)
    \/ BeginReload(r)
    \/ EnsureLoaded(r)
    \/ ReloadFetch(r)
    \/ \E doc \in Docs : Receive(r, doc)
    \/ Classify(r)
    \/ UpdateStep(r)
    \/ ReadField(r)

----------------------------------------------------------------------------
\* WorkMetadata.update(data) on a fresh record, for any data of MaxItems
\* items at most

Keys == DOMAIN WorkMetadata \cup {"bogus"}
Items == Keys \X Pages
Data == UNION {[1..n -> Items] : n \in 0..MaxItems}

UpdateInit ==
    /\ rec = WorkMetadata
    /\ given = <<>>
    /\ items = <<>>
    /\ ustate = "idle"

\* update is called, line 95
UpdateCall(d) ==
    /\ ustate = "idle"
    /\ given' = d
    /\ items' = d
    /\ ustate' = "loop"
    /\ UNCHANGED <<rec, dvars, cvars, wvars, hvars, svars, mvars, rvars, avars>>

\* update, lines 96-103: one turn of the loop, which sets or skips the item
\* or raises ValueError, or the end of the loop
UpdateLoop ==
    /\ ustate = "loop"
    /\ IF items = <<>>
       THEN /\ ustate' = "returned"
            /\ UNCHANGED <<rec, items>>
       ELSE IF UpdateRaises(rec, Head(items))
       THEN /\ ustate' = "raised"
            /\ UNCHANGED <<rec, items>>
       ELSE /\ rec' = UpdateItem(rec, Head(items))
            /\ items' = Tail(items)
            /\ UNCHANGED ustate
    /\ UNCHANGED <<given, dvars, cvars, wvars, hvars, svars, mvars, rvars, avars>>

----------------------------------------------------------------------------
\* ClientSession._resolve_url: URLs are modelled by the parts urllib splits
\* them into: the scheme as written ("" for none), whether "//" follows, the
\* host after it ("" for none, "[" for a host with an unbalanced bracket)
\* and the path.

Schemes == {"", "http", "https", "HTTPS", "ftp", "mailto"}
Hosts == {"archiveofourown.org", "example.org", "["}
Paths == {"", "/works/1", "works/1", "../works/1"}

\* the texts there are: a host needs "//" before it, and a path that follows
\* a host is empty or starts with "/"
Urls ==
    {u \in [scheme : Schemes, slashes : BOOLEAN, host : Hosts \cup {""},
            path : Paths] :
        /\ u.slashes <=> u.host # ""
        /\ u.slashes => u.path \in {"", "/works/1"}}

EmptyUrl == [scheme |-> "", slashes |-> FALSE, host |-> "", path |-> ""]

\* ClientSession.BASE_URL, line 56: "https://archiveofourown.org/"
BASE_URL == [scheme |-> "https", slashes |-> TRUE, host |-> "archiveofourown.org",
             path |-> "/"]

\* url.startswith(("http://", "https://")), line 126: case-sensitive
startswith_http(u) == u.scheme \in {"http", "https"} /\ u.slashes

\* urllib: the scheme is lower-cased; schemes that take relative references
lower(sch) == IF sch = "HTTPS" THEN "https" ELSE sch
uses_relative == {"", "http", "https", "ftp"}

\* urllib: a path reference resolved against the path of the base
JoinPath(bpath, path) ==
    IF path = "" THEN bpath
    ELSE IF path \in {"works/1", "../works/1"} THEN "/works/1"
    ELSE path

\* urllib.parse.urljoin(base, u): the URL returned, or ValueError from
\* urlsplit for a host with an unbalanced bracket
urljoin(base, u) ==
    LET sch == IF u.scheme = "" THEN base.scheme ELSE lower(u.scheme) IN
    IF u = EmptyUrl THEN [kind |-> "value", val |-> base]
    ELSE IF u.host = "[" THEN [kind |-> "error", val |-> EmptyUrl]
    ELSE IF sch # base.scheme \/ sch \notin uses_relative
         THEN [kind |-> "value", val |-> u]
    ELSE IF u.host # ""
         THEN [kind |-> "value",
               val |-> [scheme |-> sch, slashes |-> TRUE, host |-> u.host,
                        path |-> u.path]]
    ELSE [kind |-> "value",
          val |-> [scheme |-> sch, slashes |-> TRUE, host |-> base.host,
                   path |-> JoinPath(base.path, u.path)]]

\* Variant: the arguments of urljoin are swapped.
resolve_url_swapped(u) ==
    IF startswith_http(u) THEN [kind |-> "value", val |-> u]
    ELSE urljoin(u, BASE_URL)

\* _resolve_url, lines 124-128
resolve_url(u) ==
    IF startswith_http(u) THEN [kind |-> "value", val |-> u]
    ELSE urljoin(BASE_URL, u)

ResolveInit ==
    /\ rurl = EmptyUrl
    /\ rout = EmptyUrl
    /\ rprev = EmptyUrl
    /\ rstate = "idle"
    /\ rcount = 0

\* the outcome of one call on u
Resolved(u) ==
    /\ rstate' = IF resolve_url(u).kind = "error" THEN "raised" ELSE "returned"
    /\ rout' = resolve_url(u).val
    /\ rprev' = rout
    /\ rcount' = rcount + 1

\* _resolve_url(u) is called
ResolveCall(u) ==
    /\ rstate = "idle"
    /\ rurl' = u
    /\ Resolved(u)
    /\ UNCHANGED <<dvars, cvars, wvars, hvars, svars, mvars, uvars, avars>>

\* _resolve_url is called on the URL the last call returned
ResolveAgain ==
    /\ rstate = "returned"
    /\ rcount < MaxResolve
    /\ Resolved(rout)
    /\ UNCHANGED <<rurl, dvars, cvars, wvars, hvars, svars, mvars, uvars, avars>>

----------------------------------------------------------------------------
\* ArchiveUser: the user is constructed, then its accessors are read and
\* reload() is called, MaxReads operations at most.

Names == 1..NumNames

\* the accessors that call _ensure_loaded, lines 159-212, and those that do
\* not, lines 151-157 and 214-220
Guarded == {"id", "bio", "location", "joined_at", "email", "works", "bookmarks",
            "series", "collections", "fandoms", "pseudonyms"}
Plain == {"name", "link", "is_pseudonym", "parent"}

\* the links of lines 105 and 122
ProfileLink(n) == [of |-> n, pseud |-> 0]
PseudLink(p, n) == [of |-> p, pseud |-> n]

\* UserMetadata(name=n, link=...), lines 27-59: 0 stands for None and for the
\* empty defaults
UserMetadata(n) ==
    [a \in Guarded \cup Plain |->
        IF a = "name" THEN n
        ELSE IF a = "link" THEN ProfileLink(n)
        ELSE IF a = "is_pseudonym" THEN FALSE
        ELSE 0]

\* _build_pseudonym_relationship, lines 117-124: the record after
\* update({"is_pseudonym": True, "link": ..., "parent": parent})
Pseudonym(r, n, p) ==
    [r EXCEPT !["is_pseudonym"] = TRUE, !["link"] = PseudLink(p, n),
              !["parent"] = p]

NoOut == [kind |-> "none", val |-> 0]
NotImplemented == [kind |-> "error", val |-> "NotImplementedError"]

UserInit ==
    /\ ubuilt = "new"
    /\ is_loaded_ = FALSE
    /\ udata_ = UserMetadata(0)
    /\ apc = "idle"
    /\ acc = "none"
    /\ aout = NoOut
    /\ areads = 0
    /\ ufetches = 0

\* ArchiveUser.__init__, lines 94-109, with parent p (0 for None); with load
\* the constructor calls reload, which raises
ArchiveUser_init(n, p, load) ==
    /\ ubuilt = "new"
    /\ is_loaded_' = FALSE
    /\ udata_' = IF p # 0 THEN Pseudonym(UserMetadata(n), n, p) ELSE UserMetadata(n)
    /\ ubuilt' = IF load THEN "failed" ELSE "built"
    /\ aout' = IF load THEN NotImplemented ELSE NoOut
    /\ UNCHANGED <<apc, acc, areads, ufetches,
                   dvars, cvars, wvars, hvars, svars, mvars, uvars, rvars>>

\* an accessor is read, lines 151-222; those of Guarded begin with
\* self._ensure_loaded()
BeginAccess(a) ==
    /\ ubuilt = "built"
    /\ apc = "idle"
    /\ areads < MaxReads
    /\ acc' = a
    /\ aout' = NoOut
    /\ apc' = IF a \in Guarded THEN "ensure" ELSE "get"
    /\ UNCHANGED <<ubuilt, is_loaded_, udata_, areads, ufetches,
                   dvars, cvars, wvars, hvars, svars, mvars, uvars, rvars>>

\* reload() is called explicitly
BeginUserReload ==
    /\ ubuilt = "built"
    /\ apc = "idle"
    /\ areads < MaxReads
    /\ acc' = "reload"
    /\ aout' = NoOut
    /\ apc' = "reload"
    /\ UNCHANGED <<ubuilt, is_loaded_, udata_, areads, ufetches,
                   dvars, cvars, wvars, hvars, svars, mvars, uvars, rvars>>

\* _ensure_loaded, lines 147-149: if not self._is_loaded: self.reload()
UserEnsureLoaded ==
    /\ apc = "ensure"
    /\ apc' = IF is_loaded_ THEN "get" ELSE "reload"
    /\ UNCHANGED <<ubuilt, is_loaded_, udata_, acc, aout, areads, ufetches,
                   dvars, cvars, wvars, hvars, svars, mvars, uvars, rvars>>

\* Variant: reload fetches the profile and marks the user loaded.
UserReload_loads ==
    /\ apc = "reload"
    /\ is_loaded_' = TRUE
    /\ ufetches' = ufetches + 1
    /\ IF acc = "reload"
       THEN /\ aout' = [kind |-> "value", val |-> 0]
            /\ apc' = "idle"
            /\ areads' = areads + 1
       ELSE /\ apc' = "get"
            /\ UNCHANGED <<aout, areads>>
    /\ UNCHANGED <<ubuilt, udata_, acc,
                   dvars, cvars, wvars, hvars, svars, mvars, uvars, rvars>>

\* reload, lines 135-145: raise NotImplementedError(...), which nothing on
\* the way to the caller catches
UserReload ==
    /\ apc = "reload"
    /\ aout' = NotImplemented
    /\ apc' = "idle"
    /\ areads' = areads + 1
    /\ UNCHANGED <<ubuilt, is_loaded_, udata_, acc, ufetches,
                   dvars, cvars, wvars, hvars, svars, mvars, uvars, rvars>>

\* the accessor returns its field of self._data
UserReadField ==
    /\ apc = "get"
    /\ aout' = [kind |-> "value", val |-> udata_[acc]]
    /\ apc' = "idle"
    /\ areads' = areads + 1
    /\ UNCHANGED <<ubuilt, is_loaded_, udata_, acc, ufetches,
                   dvars, cvars, wvars, hvars, svars, mvars, uvars, rvars>>

ArchiveUser ==
    \/ \E n \in Names, p \in Names \cup {0}, load \in BOOLEAN :
          ArchiveUser_init(n, p, load)
    \/ \E a \in Guarded \cup Plain : BeginAccess(a)
    \/ BeginUserReload
    \/ UserEnsureLoaded
    \/ UserReload
    \/ UserReadField

----------------------------------------------------------------------------
Init ==
    /\ DispatcherInit /\ SessionInit /\ WorkInit /\ UpdateInit
    /\ ResolveInit /\ UserInit

\* One wrapped operation, called with any arguments by any caller
Next ==
    \/ \E c \in Callers : wrapper(c, {"fetch"}, Args)
    \/ \E w \in Callers : process_queue(w)
    \/ Tick

Spec == Init /\ [][Next]_vars

\* ClientSession: fetch and post are each wrapped by throttle_dispatch(1.0)
NextClient ==
    \/ \E c \in Callers : wrapper(c, Ops, {"a"})
    \/ \E w \in Callers : process_queue(w)
    \/ Tick

SpecClient == Init /\ [][NextClient]_vars

\* Threads that obtain the session
NextSession == \E u \in Users : ClientSession(u)

SpecSession == Init /\ [][NextSession]_vars

\* Threads that read and reload one ArchiveWork
NextWork == \E r \in Readers : ArchiveWork(r)

SpecWork == Init /\ [][NextWork]_vars

\* One call of WorkMetadata.update
NextUpdate ==
    \/ \E d \in Data : UpdateCall(d)
    \/ UpdateLoop

SpecUpdate == Init /\ [][NextUpdate]_vars

\* Repeated calls of _resolve_url
NextResolve ==
    \/ \E u \in Urls : ResolveCall(u)
    \/ ResolveAgain

SpecResolve == Init /\ [][NextResolve]_vars

\* One ArchiveUser and its caller
NextUser == ArchiveUser

SpecUser == Init /\ [][NextUser]_vars

\* Fair scheduling of the threads that exist: a thread that can take its next
\* step eventually takes it.  A caller is not obliged to make its call.
Fairness ==
    /\ \A c \in Callers : WF_vars(WrapperAcquire(c) \/ SpawnIfIdle(c) \/ WaitReturn(c))
    /\ \A w \in Callers : WF_vars(process_queue(w))

SpecLive == Spec /\ Fairness

----------------------------------------------------------------------------
\* Observations used by the properties

\* the invocations of the wrapped operation d, in order
InvokedOf(d) == SelectSeq(invoked, LAMBDA r : r.op = d)

\* the positions of request c in the log of invocations
InvocationsOf(c) == {i \in DOMAIN invoked : invoked[i].req = c}

\* process_queue threads of d that are started and have not returned
AliveWorkers(d) == {w \in Callers : op[w] = d /\ wpc[w] \notin {"unborn", "exited"}}

\* the closure state of the wrapped operation d
DispatcherState(d) == <<call_queue[d], lock[d], last_called[d], processing[d]>>

Outcome(c) == Func(op[c], args[c])

----------------------------------------------------------------------------
\* Properties

\* C1: for each wrapped operation, two consecutive invocations of the
\* underlying op start at least Interval apart (and in non-decreasing order).
C1_MinimumInterval ==
    \A d \in Ops : \A i \in 1..(Len(InvokedOf(d)) - 1) :
        InvokedOf(d)[i + 1].at - InvokedOf(d)[i].at >= Interval

\* C2: for each wrapped operation, at most one process_queue thread is alive.
C2_AtMostOneWorker ==
    \A d \in Ops : Cardinality(AliveWorkers(d)) <= 1

\* C3: FIFO: if A was put on the queue before B and op has been invoked for
\* B, then op was invoked for A earlier.
C3_Fifo ==
    \A d \in Ops : \A i, j \in DOMAIN putOrder[d] :
        (i < j /\ InvocationsOf(putOrder[d][j]) # {}) =>
            \E k \in InvocationsOf(putOrder[d][i]) :
                \A l \in InvocationsOf(putOrder[d][j]) : k < l

\* C4: an error raised by op for a request is what the call of that request
\* raises in its caller, and the worker that caught it is back at the head of
\* its loop, alive, to take the next request.
C4_ErrorPropagated ==
    /\ [](\A c \in Callers :
            (pc[c] = "done" /\ Outcome(c).kind = "error") => returned[c] = Outcome(c))
    /\ [][\A w \in Callers :
            (wpc[w] = "infunc" /\ wpc'[w] # "infunc" /\ item[w] \in Callers
             /\ Outcome(item[w]).kind = "error")
            => /\ wpc'[w] = "get"
               /\ result_container'[item[w]] = Outcome(item[w])
               /\ result_event'[item[w]]]_vars

\* C4 witness: a call has raised the error of op, and a request queued behind
\* it was served by the same, only worker.
C4_Witness ==
    \E c, b \in Callers :
        /\ c < b /\ op[c] = op[b] /\ pc[c] = "done" /\ pc[b] = "done"
        /\ returned[c].kind = "error"
        /\ returned[b].kind = "value"
        /\ \A w \in Callers : w # c => wpc[w] = "unborn"

\* C5: op is invoked at most once per call, exactly once for a call that has
\* returned, and the outcome that reaches a caller, or a result slot, is the
\* outcome of op on that caller's own arguments.
C5_ExactlyOnce ==
    \A c \in Callers :
        /\ Cardinality(InvocationsOf(c)) <= 1
        /\ pc[c] = "done" =>
              Cardinality(InvocationsOf(c)) = 1 /\ returned[c] = Outcome(c)
        /\ result_container[c] # None =>
              Cardinality(InvocationsOf(c)) = 1 /\ result_container[c] = Outcome(c)
        /\ pc[c] # "done" => returned[c] = None

\* C5 witness: two calls with different arguments have both returned.
C5_Witness ==
    \E c, b \in Callers :
        /\ pc[c] = "done" /\ pc[b] = "done"
        /\ returned[c].kind = "value" /\ returned[b].kind = "error"

\* C6: a call that has returned had op invoked on its own request, op has
\* finished and the request's slot is filled; until then the caller is inside
\* wrapper.
C6_ReturnsAfterOwnResult ==
    \A c \in Callers :
        pc[c] = "done" =>
            /\ \E i \in InvocationsOf(c) : invoked[i].op = op[c]
            /\ \A w \in Callers : item[w] # c
            /\ result_event[c]
            /\ result_container[c] # None

\* C6 witness: one call has returned while a later call is still blocked.
C6_Witness ==
    \E c, b \in Callers :
        /\ pc[c] = "done" /\ pc[b] = "wait"
        /\ result_container[b] = None

\* C7: under fair scheduling every call made eventually returns or raises.
C7_EveryCallReturns ==
    \A c \in Callers : (pc[c] # "idle") ~> (pc[c] = "done")

\* C7 witness: a request was enqueued while the worker was leaving: the
\* worker holds the lock at line 54 and finds the queue not empty.
C7_Witness ==
    \E w \in Callers :
        /\ wpc[w] = "exitcheck"
        /\ call_queue[op[w]] # <<>>

\* C8: any two consecutive requests through the shared session's transport,
\* by fetch or by post, are at least Interval apart.
C8_GlobalRateLimit ==
    \A i \in 1..(Len(invoked) - 1) : invoked[i + 1].at - invoked[i].at >= Interval

\* C9: the closure state of a wrapped operation changes only in steps of its
\* own callers and workers, and a worker sleeps only to keep Interval from an
\* earlier invocation of its own operation.
C9_Isolation ==
    /\ [][\A d \in Ops :
            DispatcherState(d)' # DispatcherState(d) =>
                \E c \in Callers :
                    /\ op'[c] = d
                    /\ pc'[c] # pc[c] \/ wpc'[c] # wpc[c]]_vars
    /\ [](\A w \in Callers :
            wpc[w] = "sleeping" =>
                \E i \in DOMAIN invoked :
                    /\ invoked[i].op = op[w]
                    /\ wake[w] = invoked[i].at + Interval)

\* C9 witness: one operation was invoked less than Interval after the other,
\* without its worker having slept.
C9_Witness ==
    \E i, j \in DOMAIN invoked :
        /\ i < j
        /\ invoked[i].op # invoked[j].op
        /\ invoked[j].at < invoked[i].at + Interval
        /\ last_called[invoked[j].op] = invoked[j].at

\* C10: all references ever returned by ClientSession() or instance() are
\* the same object.
C10_Singleton ==
    \A u, v \in Users : \A i \in DOMAIN refs[u] : \A j \in DOMAIN refs[v] :
        refs[u][i] = refs[v][j]

\* C11: constructing again never resets the session: once an object has its
\* transport handle, no step replaces the handle, and no step puts a true
\* authenticated flag back to false.
C11_NoReset ==
    [][\A o \in DOMAIN objects :
          /\ objects[o].has_session =>
                 objects'[o]._session = objects[o]._session
          /\ objects[o]._is_authenticated => objects'[o]._is_authenticated]_vars

\* C12: a response with the sign-in block raises the authorization error,
\* else one with the heading "Error 404" raises the not-found error, else
\* (a response without any heading included) fetch returns the document.
Claimed(doc) ==
    IF doc.signin THEN [kind |-> "error", val |-> "ClientNotAuthorizedError"]
    ELSE IF doc.heading = "Error 404"
         THEN [kind |-> "error", val |-> "ArchivePageNotFoundError"]
         ELSE [kind |-> "value", val |-> doc.page]

C12_Classification ==
    [][\A r \in Readers :
          rpc[r] = "classify" /\ rpc'[r] # "classify" =>
              IF Claimed(response[r]).kind = "value"
              THEN /\ rpc'[r] = "update"
                   /\ pending'[r] = WorkParser_parse(Claimed(response[r]).val)
              ELSE /\ rpc'[r] = "idle"
                   /\ fetch(response[r]) = Claimed(response[r])]_vars

\* C13: as long as reload() has not been called explicitly, the accessor
\* reads of all threads together cause at most one fetch.
C13_SingleFlight == ~reloads => fetches <= 1

\* C14: an explicit reload() performs exactly one fetch; an accessor read
\* that finds the work unloaded performs exactly one fetch; an accessor read
\* begun after a load has merged performs no fetch.
C14_FetchCounting ==
    \A r \in Readers :
        /\ entry[r].fetched <= 1
        /\ rop[r].kind = "reload" /\ rpc[r] \in {"fetching", "classify", "update"} =>
               entry[r].fetched = 1
        /\ rop[r].kind = "read" /\ rpc[r] \in {"classify", "update", "get"} =>
               /\ entry[r].saw = "unloaded" => entry[r].fetched = 1
               /\ entry[r].loads => entry[r].fetched = 0

\* C14 witness: one read found the work unloaded and is about to return after
\* its one fetch, while a read begun after the load is about to return
\* without any fetch.
C14_Witness ==
    \E r, q \in Readers :
        /\ rpc[r] = "get" /\ entry[r].saw = "unloaded" /\ entry[r].fetched = 1
        /\ rpc[q] = "get" /\ entry[q].loads /\ entry[q].fetched = 0

\* C15: the value an accessor is about to return is never the construction
\* default: it was merged from a fetched page.
C15_NoDefaultValue ==
    \A r \in Readers : rpc[r] = "get" => data_[rop[r].field] \in Pages

\* C16: a reload of a constructed work that fails leaves the loaded flag as
\* its call found it and the record alone; a reload that succeeds leaves
\* every parsed field set from its page.
C16_NoPartialReload ==
    [][\A r \in Readers :
          /\ rpc[r] = "classify" /\ rpc'[r] = "idle" /\ rop[r].kind # "init" =>
                 /\ loaded_' = entry[r].loaded
                 /\ data_' = data_
          /\ rpc[r] = "update" /\ rpc'[r] # "update" =>
                 \A f \in Fields : data_'[f] = Head(pending[r])[2]]_vars

\* C17: the record an accessor reads from is never a mixture: its parsed
\* fields all come from the same page, or are all still the old ones.
Uniform(r) == \A f, g \in Fields : r[f] = r[g]

C17_AtomicReplacement ==
    \A r \in Readers : rpc[r] = "get" => Uniform(data_)

LastGiven(k) ==
    LET at == {i \in DOMAIN given : given[i][1] = k}
    IN  IF at = {} THEN WorkMetadata[k]
        ELSE given[CHOOSE i \in at : \A j \in at : j <= i][2]

C19_FailedAttemptCounts ==
    \A d \in Ops : \A i \in DOMAIN InvokedOf(d) :
        Outcome(InvokedOf(d)[i].req).kind = "error" =>
            /\ last_called[decorator(d)] >= InvokedOf(d)[i].at
            /\ i < Len(InvokedOf(d)) =>
                   InvokedOf(d)[i + 1].at - InvokedOf(d)[i].at >= Interval

\* C20: for each wrapped operation, at most one invocation of the underlying
\* op is in progress at any time.
InProgress(d) == {w \in Callers : op[w] = d /\ wpc[w] = "infunc"}

C20_Serialized == \A d \in Ops : Cardinality(InProgress(d)) <= 1

\* C21: every write to processing and to last_called is made by a thread
\* that holds the lock of the dispatcher: the writes are those of lines 30,
\* 43 and 55.
C21_WritesUnderLock ==
    [][\A w \in Callers :
          \/ wpc[w] = "setflag" /\ wpc'[w] # "setflag"
          \/ wpc[w] = "invoke" /\ wpc'[w] = "infunc"
          \/ wpc[w] = "exitcheck" /\ wpc'[w] = "exited"
          => lock[decorator(op[w])] = WorkerId(w)]_vars

\* C22: a worker exits only in a step in which it holds the lock and finds
\* the queue empty, and that step clears processing; and if from some point
\* on every call made has returned and no call is under way, then from some
\* point on no worker is alive and processing is false.
AllReturned == \A c \in Callers : pc[c] \in {"idle", "done"}
Quiet == \A d \in Ops : AliveWorkers(d) = {} /\ ~processing[decorator(d)]

C22_WorkerLifecycle ==
    /\ [][\A w \in Callers :
            wpc[w] # "exited" /\ wpc'[w] = "exited" =>
                /\ lock[decorator(op[w])] = WorkerId(w)
                /\ call_queue[decorator(op[w])] = <<>>
                /\ ~processing'[decorator(op[w])]]_vars
    /\ <>[]AllReturned => <>[]Quiet

\* C22 witness: every caller has been served and has returned, the workers
\* have exited and the flag is false again.
C22_Witness ==
    /\ \A c \in Callers : pc[c] = "done"
    /\ \E w \in Callers : wpc[w] = "exited"
    /\ Quiet

\* C28: a worker that has dequeued a request sleeps exactly as long as is
\* left of Interval since the start of the previous invocation of its
\* operation: not at all when there was none or when it started Interval or
\* more ago.
Remaining(d) ==
    IF InvokedOf(d) = <<>> THEN 0
    ELSE Max(0, InvokedOf(d)[Len(InvokedOf(d))].at + Interval - now)

LoadErrors == {"ArchivePageNotFoundError", "ClientNotAuthorizedError"}

C25_IdentityImmutable ==
    /\ id_ = WorkId
    /\ data_["ID"] = WorkMetadata["ID"]
    /\ data_["link"] = WorkMetadata["link"]
    /\ fetches > 0 => url = WorkMetadata["link"]

\* C25 witness: the work has been reloaded successfully, one operation has
\* failed, and a further fetch is under way.
C25_Witness ==
    /\ merged
    /\ \E r \in Readers : result[r].kind = "error"
    /\ \E r \in Readers : rpc[r] = "fetching"
    /\ fetches >= 3

\* C26: a constructor that returns without load has made no fetch and
\* leaves the work unloaded with its default record; one that returns with
\* load has made exactly one fetch and leaves the work loaded with the
\* fields extracted from the page.
C26_Construction ==
    [][/\ built = "new" /\ built' = "plain" =>
              /\ fetches' = 0
              /\ ~loaded_'
              /\ data_' = WorkMetadata
       /\ built = "new" /\ built' = "loaded" =>
              /\ fetches' = 1
              /\ loaded_'
              /\ \E p \in Pages : \A f \in Fields : data_'[f] = p]_vars

\* C26 witness: the constructor has just returned from a load.
C26_Witness ==
    /\ built = "loaded"
    /\ fetches = 1
    /\ loaded_
    /\ \A r \in Readers : nops[r] = 0 /\ rpc[r] = "idle"

\* what joining a reference without scheme against the base gives: the
\* scheme of the base, the host of the reference or else of the base, and
\* the path resolved against the base
JoinedToBase(u, v) ==
    u.scheme = "" =>
        /\ v.scheme = BASE_URL.scheme
        /\ v.slashes
        /\ v.host = (IF u.host # "" THEN u.host ELSE BASE_URL.host)
        /\ u.host = "" /\ u.path # "" => v.path = JoinPath(BASE_URL.path, u.path)

\* C27: resolve returns for every input: a URL that starts with http:// or
\* https:// unchanged, any other joined against the base; and resolving the
\* result again gives the same URL.
C27_ResolveIdempotent ==
    /\ rstate # "raised"
    /\ rcount = 1 =>
           IF startswith_http(rurl) THEN rout = rurl ELSE JoinedToBase(rurl, rout)
    /\ rcount >= 2 => rout = rprev

\* C27 as amended: resolve raises only for an input that does not start with
\* http:// or https:// and whose host has an unbalanced bracket; for every
\* other input it returns as stated and resolving the result again returns
\* the same URL.
C27_ResolveIdempotentWhereDefined ==
    /\ rstate = "raised" =>
           /\ rcount = 1
           /\ ~startswith_http(rurl)
           /\ rurl.host = "["
    /\ rstate = "returned" /\ rcount = 1 =>
           IF startswith_http(rurl) THEN rout = rurl ELSE JoinedToBase(rurl, rout)
    /\ rcount >= 2 => rstate = "returned" /\ rout = rprev

\* C27 witness: a relative reference was resolved against the base, and the
\* result resolved again.
C27_Witness ==
    /\ rcount = 2
    /\ rurl.scheme = "" /\ rurl.path = "../works/1"
    /\ rout.host = BASE_URL.host /\ rout.path = "/works/1"

\* C29: reload of an ArchiveUser always raises NotImplementedError, so the
\* user is never loaded and never fetches; reading an accessor that calls
\* _ensure_loaded raises it every time, while name, link, is_pseudonym and
\* parent return the values of the construction without entering
\* _ensure_loaded or reload.
C29_UserNeverLoads ==
    /\ [](/\ ~is_loaded_
          /\ ufetches = 0
          /\ acc \in Plain => apc \notin {"ensure", "reload"})
    /\ [][/\ ubuilt = "built" => udata_' = udata_
          /\ apc # "idle" /\ apc' = "idle" =>
                 IF acc \in Plain
                 THEN /\ aout'.kind = "value"
                      /\ aout'.val = udata_[acc]
                 ELSE aout' = NotImplemented]_vars

\* C29 witness: on a pseudonym, a first read has completed and a read of an
\* accessor that calls _ensure_loaded has just raised.
C29_Witness ==
    /\ ubuilt = "built"
    /\ udata_["is_pseudonym"]
    /\ areads = 2
    /\ acc \in Guarded
    /\ aout = NotImplemented

====
